---- MODULE Spec2Model ----
(***************************************************************************)
(* Reconciliation and enforcement engine of trade-guardian.                *)
(*                                                                         *)
(* The edge function (sync-trades, monitor-trades), the rule evaluator,    *)
(* the broker gateway calls and the browser-side scheduler                 *)
(* (TradeMonitoring) are modelled as a state machine.  Every await of the  *)
(* source is a point where another invocation may run, so each handler is  *)
(* a job that advances one await at a time.                                *)
(***************************************************************************)
EXTENDS Integers, Sequences, FiniteSets, TLC

VARIABLES
    ledger,      \* public.trades: sequence of rows, in insertion order
    plans,       \* public.trading_plans: sequence of rows
    accounts,    \* users that own an mt5_accounts row
    positions,   \* broker: account -> identifiers of the open positions
    deals,       \* broker: account -> identifiers among the historical deals
    jobs,        \* slot -> invocation in flight (its position and locals)
    launched,    \* number of invocations started so far
    isMonitoring,\* TradeMonitoring state: the Scheduler is Running
    intervalId,  \* TradeMonitoring state: handle of the interval timer, or NoTimer
    timers,      \* handles of the interval timers that are armed
    closeFailed, \* identifiers for which a closePosition request has failed
    evalIn,      \* input of the evaluator under test
    evalOut      \* its output, or Pending

engine == <<ledger, plans, accounts, positions, deals>>
sched == <<isMonitoring, intervalId, timers>>
eval == <<closeFailed, evalIn, evalOut>>
vars == <<ledger, plans, accounts, positions, deals, jobs, launched,
          isMonitoring, intervalId, timers, closeFailed, evalIn, evalOut>>

---------------------------------------------------------------------------
(* Bounds *)

MaxLaunch == 2
MaxRows == 3
MaxPlanRows == 2

---------------------------------------------------------------------------
(* Scenario: two users, each with one broker account.  The two accounts    *)
(* both use the ticket "t1".                                               *)

Users == {"u1", "u2"}
Slots == {1, 2}
TradeOrder == <<"t1", "t2">>
TradeIds == {"t1", "t2"}

AccountOf(u) == IF u = "u1" THEN "a1" ELSE "a2"
Accounts == {AccountOf(u) : u \in Users}
Tickets(a) == IF a = "a1" THEN {"t1", "t2"} ELSE {"t1"}

Null == 0 - 999
NoTimer == 0
Today == 1
Yesterday == 0
BrokerCloseTime == 5
EnforceTime == 9

\* Facts the broker reports for an item; view is "pos" or "deal".
Symbol(a, t) == IF a = "a2" THEN "XAUUSD" ELSE IF t = "t1" THEN "EURUSD" ELSE "GBPUSD"
Side(a, t) == IF t = "t1" THEN "BUY" ELSE "SELL"
Volume(a, t) == IF a = "a2" THEN 3 ELSE IF t = "t1" THEN 1 ELSE 2
OpenPrice(a, t) == IF a = "a2" THEN 30 ELSE IF t = "t1" THEN 10 ELSE 20
OpenTime(a, t) == IF t = "t1" THEN Today ELSE Yesterday
Profit(a, t, view) ==
    IF a = "a2" THEN 7
    ELSE IF view = "pos" THEN (IF t = "t1" THEN 0 - 3 ELSE 0)
    ELSE (IF t = "t1" THEN 0 - 6 ELSE 4)
ClosePrice(a, t, view) == IF view = "pos" THEN Null ELSE OpenPrice(a, t) + 1
CloseTime(a, t, view) == IF view = "pos" THEN Null ELSE BrokerCloseTime

Item(a, t, view) ==
    [id |-> t, view |-> view, symbol |-> Symbol(a, t), type |-> Side(a, t),
     volume |-> Volume(a, t), openPrice |-> OpenPrice(a, t),
     openTime |-> OpenTime(a, t), profit |-> Profit(a, t, view),
     closePrice |-> ClosePrice(a, t, view), closeTime |-> CloseTime(a, t, view)]

\* JavaScript  x || null  and  x || 0  on a number that may be undefined.
OrNull(x) == IF x = Null \/ x = 0 THEN Null ELSE x
OrZero(x) == IF x = Null THEN 0 ELSE x

SeqOfSet(S) == SelectSeq(TradeOrder, LAMBDA t : t \in S)

RECURSIVE MapItems(_, _, _)
MapItems(a, ids, view) ==
    IF ids = <<>> THEN <<>>
    ELSE <<Item(a, Head(ids), view)>> \o MapItems(a, Tail(ids), view)

---------------------------------------------------------------------------
(* Broker gateway *)

FetchOutcomes == {"ok", "fail", "throw"}

\* getAccountTrades: positions then history deals, concatenated.
getAccountTrades(a, posRes, histRes) ==
    IF posRes = "throw" THEN <<>>
    ELSE LET fromPos == IF posRes = "ok" THEN MapItems(a, SeqOfSet(positions[a]), "pos") ELSE <<>>
             fromHist == IF histRes = "ok" THEN MapItems(a, SeqOfSet(deals[a]), "deal") ELSE <<>>
         IN  fromPos \o fromHist

---------------------------------------------------------------------------
(* Trade ledger *)

RowIdx == 1..Len(ledger)

\* .eq('trade_id', id).single(): a row only when exactly one row matches.
MatchingRows(l, id) == {r \in 1..Len(l) : l[r].tradeId = id}
SingleTrade(l, id) == Cardinality(MatchingRows(l, id)) = 1

NewRow(u, item) ==
    [user |-> u, tradeId |-> item.id, symbol |-> item.symbol, side |-> item.type,
     volume |-> item.volume, openPrice |-> item.openPrice,
     closePrice |-> OrNull(item.closePrice), profit |-> OrZero(item.profit),
     openedAt |-> item.openTime, closedAt |-> OrNull(item.closeTime),
     isOpen |-> (item.closeTime = Null \/ item.closeTime = 0),
     followsRules |-> TRUE, violations |-> <<>>, autoClosed |-> FALSE,
     autoCloseReason |-> <<>>]

InsertTrade(l, u, item) == Append(l, NewRow(u, item))

\* Mutant: the update of an existing record also resets its compliance flag.
UpdateTrade_resetFlags(l, item) ==
    [r \in 1..Len(l) |->
        IF l[r].tradeId = item.id
        THEN [l[r] EXCEPT !.closePrice = OrNull(item.closePrice),
                          !.profit = OrZero(item.profit),
                          !.closedAt = OrNull(item.closeTime),
                          !.isOpen = (item.closeTime = Null \/ item.closeTime = 0),
                          !.followsRules = TRUE]
        ELSE l[r]]

UpdateTrade(l, item) ==
    [r \in 1..Len(l) |->
        IF l[r].tradeId = item.id
        THEN [l[r] EXCEPT !.closePrice = OrNull(item.closePrice),
                          !.profit = OrZero(item.profit),
                          !.closedAt = OrNull(item.closeTime),
                          !.isOpen = (item.closeTime = Null \/ item.closeTime = 0)]
        ELSE l[r]]

RECURSIVE Join(_, _)
Join(s, sep) ==
    IF s = <<>> THEN <<>>
    ELSE IF Len(s) = 1 THEN s
    ELSE <<Head(s), sep>> \o Join(Tail(s), sep)

\* Mutant: the violation mark sets closed_at and leaves is_open as it was.
MarkViolation_leaveOpen(l, id, tv) ==
    [r \in 1..Len(l) |->
        IF l[r].tradeId = id
        THEN [l[r] EXCEPT !.followsRules = FALSE,
                          !.violations = tv,
                          !.autoClosed = TRUE,
                          !.autoCloseReason = <<"Rule violation: ">> \o Join(tv, ", "),
                          !.closedAt = EnforceTime]
        ELSE l[r]]

\* The update of monitor-trades, by trade_id.
MarkViolation(l, id, tv) ==
    [r \in 1..Len(l) |->
        IF l[r].tradeId = id
        THEN [l[r] EXCEPT !.followsRules = FALSE,
                          !.violations = tv,
                          !.autoClosed = TRUE,
                          !.autoCloseReason = <<"Rule violation: ">> \o Join(tv, ", "),
                          !.closedAt = EnforceTime,
                          !.isOpen = FALSE]
        ELSE l[r]]

---------------------------------------------------------------------------
(* Rule evaluator *)

\* Times of day are seconds since midnight; a TIME column reads <<h, m, s>>.
Clock(h, m, s) == h * 3600 + m * 60 + s

\* sessionStart.setHours(startHour, startMin, 0, 0): the seconds are dropped.
SessionInstant(hms) == Clock(hms[1], hms[2], 0)

Includes(seq, x) == \E k \in 1..Len(seq) : seq[k] = x

\* Mutant: a session that ends before it starts is read as an overnight one.
checkTradeViolations_overnightWindow(trade, plan, dailyStats, now) ==
    LET sessionStart == SessionInstant(plan.session_start)
        sessionEnd == SessionInstant(plan.session_end)
        outside == IF sessionEnd < sessionStart
                   THEN now < sessionStart /\ now > sessionEnd
                   ELSE now < sessionStart \/ now > sessionEnd
        v1 == IF outside THEN <<"Outside trading session">> ELSE <<>>
        v2 == IF Len(plan.allowed_symbols) > 0 /\ ~Includes(plan.allowed_symbols, trade.symbol)
              THEN Append(v1, "Symbol not allowed") ELSE v1
        v3 == IF dailyStats.tradeCount >= plan.max_trades_per_day
              THEN Append(v2, "Daily trade limit exceeded") ELSE v2
        v4 == IF dailyStats.dailyLoss <= 0 - plan.max_daily_loss_percent
              THEN Append(v3, "Daily loss limit exceeded") ELSE v3
    IN  v4

\* Mutant: the trade limit is compared with > instead of >=.
checkTradeViolations_strictCount(trade, plan, dailyStats, now) ==
    LET sessionStart == SessionInstant(plan.session_start)
        sessionEnd == SessionInstant(plan.session_end)
        v1 == IF now < sessionStart \/ now > sessionEnd
              THEN <<"Outside trading session">> ELSE <<>>
        v2 == IF Len(plan.allowed_symbols) > 0 /\ ~Includes(plan.allowed_symbols, trade.symbol)
              THEN Append(v1, "Symbol not allowed") ELSE v1
        v3 == IF dailyStats.tradeCount > plan.max_trades_per_day
              THEN Append(v2, "Daily trade limit exceeded") ELSE v2
        v4 == IF dailyStats.dailyLoss <= 0 - plan.max_daily_loss_percent
              THEN Append(v3, "Daily loss limit exceeded") ELSE v3
    IN  v4

checkTradeViolations(trade, plan, dailyStats, now) ==
    LET sessionStart == SessionInstant(plan.session_start)
        sessionEnd == SessionInstant(plan.session_end)
        v1 == IF now < sessionStart \/ now > sessionEnd
              THEN <<"Outside trading session">> ELSE <<>>
        v2 == IF Len(plan.allowed_symbols) > 0 /\ ~Includes(plan.allowed_symbols, trade.symbol)
              THEN Append(v1, "Symbol not allowed") ELSE v1
        v3 == IF dailyStats.tradeCount >= plan.max_trades_per_day
              THEN Append(v2, "Daily trade limit exceeded") ELSE v2
        v4 == IF dailyStats.dailyLoss <= 0 - plan.max_daily_loss_percent
              THEN Append(v3, "Daily loss limit exceeded") ELSE v3
    IN  v4

---------------------------------------------------------------------------
(* Trading plans *)

NoPlan ==
    [max_trades_per_day |-> 0, allowed_symbols |-> <<>>, session_start |-> <<0, 0, 0>>,
     session_end |-> <<0, 0, 0>>, max_daily_loss_percent |-> 0]

\* The plan the settings page saves in this scenario.
FormPlan ==
    [max_trades_per_day |-> 2, allowed_symbols |-> <<"EURUSD">>, session_start |-> <<9, 0, 0>>,
     session_end |-> <<17, 0, 0>>, max_daily_loss_percent |-> 5]

\* Evaluation instants a cycle may read from the wall clock.
NowSet == {Clock(12, 0, 0), Clock(20, 0, 0)}

\* .eq('user_id', u).eq('is_active', true).single()
ActivePlanRows(u) == {r \in 1..Len(plans) : plans[r].user = u /\ plans[r].isActive}
HasSinglePlan(u) == Cardinality(ActivePlanRows(u)) = 1
ActivePlan(u) == plans[CHOOSE r \in ActivePlanRows(u) : TRUE].plan

\* Today's rows of the user and the aggregate the cycle derives from them.
TodayTrades(l, u) == SelectSeq(l, LAMBDA row : row.user = u /\ row.openedAt = Today)

RECURSIVE SumProfit(_)
SumProfit(rows) ==
    IF rows = <<>> THEN 0 ELSE OrZero(Head(rows).profit) + SumProfit(Tail(rows))

DailyStats(l, u) ==
    [tradeCount |-> Len(TodayTrades(l, u)), dailyLoss |-> SumProfit(TodayTrades(l, u))]

---------------------------------------------------------------------------
(* Invocations in flight *)

NoStats == [tradeCount |-> 0, dailyLoss |-> 0]
NoRes == [success |-> FALSE, error |-> "none", count |-> 0, violations |-> 0, details |-> <<>>]

IdleJob ==
    [kind |-> "idle", origin |-> "none", user |-> "none", pc |-> "idle", trades |-> <<>>,
     i |-> 0, existing |-> FALSE, plan |-> NoPlan, stats |-> NoStats, tv |-> <<>>,
     closed |-> FALSE, violated |-> <<>>, details |-> <<>>, res |-> NoRes]

Failure(msg) == [NoRes EXCEPT !.error = msg]
SyncSuccess(n) == [NoRes EXCEPT !.success = TRUE, !.error = "", !.count = n]
MonitorSuccess(n, details) ==
    [success |-> TRUE, error |-> "", count |-> n, violations |-> Len(details), details |-> details]

Free(s) == jobs[s].kind = "idle"
CurItem(s) == jobs[s].trades[jobs[s].i]

Launch(s, kind, origin, u, pc) ==
    /\ Free(s)
    /\ \A s2 \in Slots : Free(s2) => s <= s2
    /\ launched < MaxLaunch
    /\ launched' = launched + 1
    /\ jobs' = [jobs EXCEPT ![s] = [IdleJob EXCEPT !.kind = kind, !.origin = origin,
                                                   !.user = u, !.pc = pc]]

\* manualSync -> performSync -> syncTrades; the button is disabled while
\* isSyncing, so a browser has one manual sync in flight at a time.
InvokeSync(s, u) ==
    /\ \A s2 \in Slots : ~(jobs[s2].kind = "sync" /\ jobs[s2].user = u)
    /\ Launch(s, "sync", "manual", u, "s_fetch")
    /\ UNCHANGED <<engine, sched, eval>>

\* performMonitoring: syncTrades, then monitorTrades.
InvokeTick(s, u) ==
    /\ Launch(s, "tick", "free", u, "s_fetch")
    /\ UNCHANGED <<engine, sched, eval>>

\* supabase.functions.invoke('metaapi-service', {action: 'monitor-trades'})
InvokeMonitor(s, u) ==
    /\ Launch(s, "monitor", "direct", u, "m_plan")
    /\ UNCHANGED <<engine, sched, eval>>

---------------------------------------------------------------------------
(* case 'sync-trades' *)

\* getAccountTrades, then the lookup of the user's mt5_accounts row.
SyncBegin(s) ==
    /\ jobs[s].pc = "s_fetch"
    /\ \E posRes \in FetchOutcomes, histRes \in FetchOutcomes :
          LET currentTrades == getAccountTrades(AccountOf(jobs[s].user), posRes, histRes)
          IN  jobs' = [jobs EXCEPT ![s] =
                 IF jobs[s].user \notin accounts
                 THEN [@ EXCEPT !.pc = "s_done", !.res = Failure("MT5 account not found")]
                 ELSE IF currentTrades = <<>>
                 THEN [@ EXCEPT !.pc = "s_done", !.res = SyncSuccess(0)]
                 ELSE [@ EXCEPT !.pc = "s_select", !.i = 1, !.trades = currentTrades]]
    /\ UNCHANGED <<engine, launched, sched, eval>>

SyncSelect(s) ==
    /\ jobs[s].pc = "s_select"
    /\ jobs' = [jobs EXCEPT ![s].existing = SingleTrade(ledger, CurItem(s).id),
                            ![s].pc = "s_write"]
    /\ UNCHANGED <<engine, launched, sched, eval>>

SyncAdvance(j) ==
    IF j.i = Len(j.trades)
    THEN [j EXCEPT !.pc = "s_done", !.res = SyncSuccess(Len(j.trades)),
                   !.i = 0, !.existing = FALSE]
    ELSE [j EXCEPT !.pc = "s_select", !.i = j.i + 1, !.existing = FALSE]

\* One pass of the loop body after the select: insert, or update by trade_id.
SyncTrade(l, u, item, existing) ==
    IF existing THEN UpdateTrade(l, item) ELSE InsertTrade(l, u, item)

\* The insert or update is awaited and its result is not read: the write
\* either takes effect or fails, and the loop goes on.
SyncWrite(s) ==
    /\ jobs[s].pc = "s_write"
    /\ \E ok \in BOOLEAN :
          IF ok
          THEN /\ jobs[s].existing \/ Len(ledger) < MaxRows
               /\ ledger' = SyncTrade(ledger, jobs[s].user, CurItem(s), jobs[s].existing)
          ELSE ledger' = ledger
    /\ jobs' = [jobs EXCEPT ![s] = SyncAdvance(jobs[s])]
    /\ UNCHANGED <<plans, accounts, positions, deals, launched, sched, eval>>

\* The response reaches the caller: performSync ends, performMonitoring goes
\* on to monitorTrades.
SyncReturn(s) ==
    /\ jobs[s].pc = "s_done"
    /\ jobs' = [jobs EXCEPT ![s] =
          IF jobs[s].kind = "tick"
          THEN [@ EXCEPT !.pc = "m_plan", !.res = NoRes, !.trades = <<>>]
          ELSE IdleJob]
    /\ UNCHANGED <<engine, launched, sched, eval>>

\* The whole loop of sync-trades when nothing else runs in between.
RECURSIVE Reconcile(_, _, _)
Reconcile(l, u, trades) ==
    IF trades = <<>> THEN l
    ELSE Reconcile(SyncTrade(l, u, Head(trades), SingleTrade(l, Head(trades).id)),
                   u, Tail(trades))

---------------------------------------------------------------------------
(* case 'monitor-trades' *)

\* Mutant: a close the broker did not confirm ends the cycle with a failure.
MonAdvance_abortOnFailedClose(j) ==
    IF Len(j.violated) > Len(j.details)
    THEN [j EXCEPT !.pc = "m_done", !.res = Failure("close failed"),
                   !.i = 0, !.tv = <<>>, !.closed = FALSE,
                   !.plan = NoPlan, !.stats = NoStats, !.details = <<>>]
    ELSE IF j.i = Len(j.trades)
    THEN [j EXCEPT !.pc = "m_done", !.res = MonitorSuccess(Len(j.trades), j.details),
                   !.i = 0, !.tv = <<>>, !.closed = FALSE,
                   !.plan = NoPlan, !.stats = NoStats, !.details = <<>>]
    ELSE [j EXCEPT !.pc = "m_check", !.i = j.i + 1, !.tv = <<>>, !.closed = FALSE]

\* End of one pass of the loop: the next item, or the response of the cycle.
MonAdvance(j) ==
    IF j.i = Len(j.trades)
    THEN [j EXCEPT !.pc = "m_done", !.res = MonitorSuccess(Len(j.trades), j.details),
                   !.i = 0, !.tv = <<>>, !.closed = FALSE,
                   !.plan = NoPlan, !.stats = NoStats, !.details = <<>>]
    ELSE [j EXCEPT !.pc = "m_check", !.i = j.i + 1, !.tv = <<>>, !.closed = FALSE]

\* data of the plan query: the row, or null (NoPlan).
PlanLookup(u) == IF HasSinglePlan(u) THEN ActivePlan(u) ELSE NoPlan

\* Mutant: the cycle goes on when the plan query returned no row.
BeginCycle_ignoreMissingPlan(j, plan, currentTrades, stats) ==
    IF currentTrades = <<>>
    THEN [j EXCEPT !.pc = "m_done", !.res = MonitorSuccess(0, <<>>)]
    ELSE [j EXCEPT !.pc = "m_check", !.i = 1, !.trades = currentTrades,
                   !.plan = plan, !.stats = stats]

\* The start of the cycle, given what the three queries returned.
BeginCycle(j, plan, currentTrades, stats) ==
    IF plan = NoPlan
    THEN [j EXCEPT !.pc = "m_done", !.res = Failure("No active trading plan found")]
    ELSE IF currentTrades = <<>>
    THEN [j EXCEPT !.pc = "m_done", !.res = MonitorSuccess(0, <<>>)]
    ELSE [j EXCEPT !.pc = "m_check", !.i = 1, !.trades = currentTrades,
                   !.plan = plan, !.stats = stats]

\* The plan lookup, getAccountTrades and the query of today's trades.
MonBegin(s) ==
    /\ jobs[s].pc = "m_plan"
    /\ \E posRes \in FetchOutcomes, histRes \in FetchOutcomes :
          jobs' = [jobs EXCEPT ![s] =
             BeginCycle(jobs[s], PlanLookup(jobs[s].user),
                        getAccountTrades(AccountOf(jobs[s].user), posRes, histRes),
                        DailyStats(ledger, jobs[s].user))]
    /\ UNCHANGED <<engine, launched, sched, eval>>

\* closePosition: the broker accepts the close of an open position, or the
\* request fails (error status, timeout, network error).
BrokerClose(a, id, closed) ==
    IF closed
    THEN /\ id \in positions[a]
         /\ positions' = [positions EXCEPT ![a] = @ \ {id}]
         /\ deals' = [deals EXCEPT ![a] = @ \cup {id}]
    ELSE UNCHANGED <<positions, deals>>

Detail(item, tv) ==
    [tradeId |-> item.id, symbol |-> item.symbol, violations |-> tv, action |-> "closed"]

\* Mutant: the ledger update no longer depends on the answer of the broker.
AfterClose_ignoreAnswer(j, tv, closed) ==
    [j EXCEPT !.pc = "m_update", !.tv = tv, !.closed = closed,
              !.details = Append(j.details, Detail(j.trades[j.i], tv))]

\* What the loop body does with the answer of closePosition.
AfterClose(j, tv, closed) ==
    IF closed
    THEN [j EXCEPT !.pc = "m_update", !.tv = tv, !.closed = TRUE,
                   !.details = Append(j.details, Detail(j.trades[j.i], tv))]
    ELSE MonAdvance(j)

\* The cycle notes the items it found violating (it asks the broker to close
\* each of them).
NoteViolation(j) == [j EXCEPT !.violated = Append(j.violated, j.i)]

\* Mutant: the cycle remembers failed closes and does not ask again.
MonCheck_skipKnownFailures(s) ==
    /\ jobs[s].pc = "m_check"
    /\ \E now \in NowSet, closed \in BOOLEAN :
          LET j == jobs[s]
              tv == checkTradeViolations(CurItem(s), j.plan, j.stats, now)
          IN  IF Len(tv) > 0 /\ CurItem(s).id \notin closeFailed
              THEN /\ BrokerClose(AccountOf(j.user), CurItem(s).id, closed)
                   /\ jobs' = [jobs EXCEPT ![s] = AfterClose(NoteViolation(j), tv, closed)]
                   /\ closeFailed' = IF closed THEN closeFailed
                                      ELSE closeFailed \cup {CurItem(s).id}
              ELSE /\ closed = FALSE
                   /\ jobs' = [jobs EXCEPT ![s] = MonAdvance(j)]
                   /\ UNCHANGED <<positions, deals, closeFailed>>
    /\ UNCHANGED <<ledger, plans, accounts, launched, sched, evalIn, evalOut>>

\* One pass of the loop body up to the answer of closePosition.
MonCheck(s) ==
    /\ jobs[s].pc = "m_check"
    /\ \E now \in NowSet, closed \in BOOLEAN :
          LET j == jobs[s]
              tv == checkTradeViolations(CurItem(s), j.plan, j.stats, now)
          IN  IF Len(tv) > 0
              THEN /\ BrokerClose(AccountOf(j.user), CurItem(s).id, closed)
                   /\ jobs' = [jobs EXCEPT ![s] = AfterClose(NoteViolation(j), tv, closed)]
                   /\ closeFailed' = IF closed THEN closeFailed
                                      ELSE closeFailed \cup {CurItem(s).id}
              ELSE /\ closed = FALSE
                   /\ jobs' = [jobs EXCEPT ![s] = MonAdvance(j)]
                   /\ UNCHANGED <<positions, deals, closeFailed>>
    /\ UNCHANGED <<ledger, plans, accounts, launched, sched, evalIn, evalOut>>

\* Mutant: the cycle stops writing once the Scheduler has been stopped.
MonUpdate_onlyWhileRunning(s) ==
    /\ jobs[s].pc = "m_update"
    /\ isMonitoring
    /\ \E ok \in BOOLEAN :
          ledger' = IF ok THEN MarkViolation(ledger, CurItem(s).id, jobs[s].tv) ELSE ledger
    /\ jobs' = [jobs EXCEPT ![s] = MonAdvance(jobs[s])]
    /\ UNCHANGED <<plans, accounts, positions, deals, launched, sched, eval>>

\* The update that marks the violation; its result is not read either.
MonUpdate(s) ==
    /\ jobs[s].pc = "m_update"
    /\ \E ok \in BOOLEAN :
          ledger' = IF ok THEN MarkViolation(ledger, CurItem(s).id, jobs[s].tv) ELSE ledger
    /\ jobs' = [jobs EXCEPT ![s] = MonAdvance(jobs[s])]
    /\ UNCHANGED <<plans, accounts, positions, deals, launched, sched, eval>>

\* Mutant: a tick that returns a failure stops the Scheduler.
MonReturn_stopOnFailure(s) ==
    /\ jobs[s].pc = "m_done"
    /\ jobs' = [jobs EXCEPT ![s] = IdleJob]
    /\ IF ~jobs[s].res.success
       THEN /\ isMonitoring' = FALSE
            /\ timers' = {}
            /\ intervalId' = NoTimer
       ELSE IF jobs[s].origin = "start"
       THEN /\ timers' = (timers \ {intervalId}) \cup {s}
            /\ intervalId' = s
            /\ UNCHANGED isMonitoring
       ELSE UNCHANGED sched
    /\ UNCHANGED <<engine, launched, eval>>

\* The response reaches the caller.  startMonitoring, which awaited its first
\* performMonitoring, goes on to setInterval and setIntervalId; the effect
\* cleanup of the previous intervalId runs with the state change.
MonReturn(s) ==
    /\ jobs[s].pc = "m_done"
    /\ jobs' = [jobs EXCEPT ![s] = IdleJob]
    /\ IF jobs[s].origin = "start"
       THEN /\ timers' = (timers \ {intervalId}) \cup {s}
            /\ intervalId' = s
            /\ UNCHANGED isMonitoring
       ELSE UNCHANGED sched
    /\ UNCHANGED <<engine, launched, eval>>

---------------------------------------------------------------------------
(* TradeMonitoring: the Scheduler of the browser session of u1 *)

\* The button shows Start while isMonitoring is false.
StartClick(s) ==
    /\ ~isMonitoring
    /\ Launch(s, "start", "start", "u1", "st_lookup")
    /\ UNCHANGED <<engine, sched, eval>>

\* After getUser and the mt5_accounts lookup: setIsMonitoring(true) and the
\* first performMonitoring.
StartProceed(s) ==
    /\ jobs[s].pc = "st_lookup"
    /\ IF "u1" \in accounts
       THEN /\ isMonitoring' = TRUE
            /\ jobs' = [jobs EXCEPT ![s].kind = "tick", ![s].pc = "s_fetch"]
       ELSE /\ jobs' = [jobs EXCEPT ![s] = IdleJob]
            /\ UNCHANGED isMonitoring
    /\ UNCHANGED <<engine, launched, intervalId, timers, eval>>

stopMonitoring ==
    /\ isMonitoring
    /\ IF intervalId # NoTimer
       THEN /\ timers' = timers \ {intervalId}
            /\ intervalId' = NoTimer
       ELSE UNCHANGED <<timers, intervalId>>
    /\ isMonitoring' = FALSE
    /\ UNCHANGED <<engine, jobs, launched, eval>>

\* Mutant: the interval callback goes straight to monitorTrades.
TimerFire_skipSync(s) ==
    /\ timers # {}
    /\ Launch(s, "tick", "timer", "u1", "m_plan")
    /\ UNCHANGED <<engine, sched, eval>>

\* The interval elapses: the callback calls performMonitoring.
TimerFire(s) ==
    /\ timers # {}
    /\ Launch(s, "tick", "timer", "u1", "s_fetch")
    /\ UNCHANGED <<engine, sched, eval>>

---------------------------------------------------------------------------
(* The settings page *)

SavePlan(u, p) ==
    /\ Len(plans) < MaxPlanRows
    /\ plans' = Append(plans, [user |-> u, plan |-> p, isActive |-> TRUE])
    /\ UNCHANGED <<ledger, accounts, positions, deals, jobs, launched, sched, eval>>

---------------------------------------------------------------------------
(* Specifications *)

Pending == <<"pending">>
NoInput == [symbol |-> "EURUSD", plan |-> NoPlan, stats |-> NoStats, now |-> 0]

\* What the broker of account a1 lists when the session begins: two open
\* positions, or one position that is also listed among the deals.  A close
\* moves a position to the deals.  Account a2 holds its ticket open throughout.
BrokerScenarios ==
    {<<{"t1", "t2"}, {}>>, <<{"t1"}, {"t1"}>>}

InitBroker(P, D) ==
    /\ positions = [a \in Accounts |-> IF a = "a1" THEN P ELSE Tickets(a)]
    /\ deals = [a \in Accounts |-> IF a = "a1" THEN D ELSE {}]

InitIdle ==
    /\ ledger = <<>>
    /\ accounts = Users
    /\ jobs = [s \in Slots |-> IdleJob]
    /\ launched = 0
    /\ isMonitoring = FALSE
    /\ intervalId = NoTimer
    /\ timers = {}
    /\ closeFailed = {}

EngineStep ==
    \/ \E s \in Slots : SyncBegin(s)
    \/ \E s \in Slots : SyncSelect(s)
    \/ \E s \in Slots : SyncWrite(s)
    \/ \E s \in Slots : SyncReturn(s)
    \/ \E s \in Slots : MonBegin(s)
    \/ \E s \in Slots : MonCheck(s)
    \/ \E s \in Slots : MonUpdate(s)
    \/ \E s \in Slots : MonReturn(s)

\* The engine under any caller: invocations arrive at any time.
Init ==
    /\ InitIdle
    /\ plans = <<>>
    /\ \E sc \in BrokerScenarios : InitBroker(sc[1], sc[2])
    /\ evalIn = NoInput
    /\ evalOut = Pending

Next ==
    \/ \E s \in Slots, u \in Users : InvokeSync(s, u)
    \/ \E s \in Slots : InvokeMonitor(s, "u1")
    \/ \E s \in Slots : InvokeTick(s, "u1")
    \/ EngineStep
    \/ SavePlan("u1", FormPlan)

Spec == Init /\ [][Next]_vars

\* The engine driven by the Scheduler of one browser session.
InitSched ==
    /\ InitIdle
    /\ plans \in {<<>>, <<[user |-> "u1", plan |-> FormPlan, isActive |-> TRUE]>>}
    /\ \E P \in {{"t1"}, {"t2"}} : InitBroker(P, {})
    /\ evalIn = NoInput
    /\ evalOut = Pending

NextSched ==
    \/ \E s \in Slots : StartClick(s)
    \/ \E s \in Slots : StartProceed(s)
    \/ stopMonitoring
    \/ \E s \in Slots : TimerFire(s)
    \/ \E s \in Slots : InvokeSync(s, "u1")
    \/ EngineStep

SpecSched == InitSched /\ [][NextSched]_vars

\* The rule evaluator on its own: one call on each input.
EvalSymbols == {"EURUSD", "GBPUSD"}
EvalSessions == {<<<<9, 0, 0>>, <<17, 0, 0>>>>, <<<<17, 0, 0>>, <<9, 0, 0>>>>,
                 <<<<9, 30, 0>>, <<9, 30, 0>>>>}
EvalPlans ==
    {[max_trades_per_day |-> m, allowed_symbols |-> a, session_start |-> ss[1],
      session_end |-> ss[2], max_daily_loss_percent |-> 5] :
        m \in {1, 2}, a \in {<<>>, <<"EURUSD">>, <<"GBPUSD", "EURUSD">>}, ss \in EvalSessions}
EvalStats == {[tradeCount |-> c, dailyLoss |-> l] : c \in 0..2, l \in {0 - 6, 0 - 5, 0 - 4, 0}}
EvalNows == {Clock(8, 59, 59), Clock(9, 0, 0), Clock(9, 30, 0), Clock(12, 0, 0),
             Clock(17, 0, 0), Clock(17, 0, 1), Clock(20, 0, 0)}

Evaluate ==
    /\ evalOut = Pending
    /\ evalOut' = checkTradeViolations([symbol |-> evalIn.symbol], evalIn.plan,
                                        evalIn.stats, evalIn.now)
    /\ UNCHANGED <<engine, jobs, launched, sched, closeFailed, evalIn>>

InitEval ==
    /\ InitIdle
    /\ plans = <<>>
    /\ InitBroker({}, {})
    /\ evalIn \in [symbol : EvalSymbols, plan : EvalPlans, stats : EvalStats, now : EvalNows]
    /\ evalOut = Pending

NextEval == Evaluate

SpecEval == InitEval /\ [][NextEval]_vars

---------------------------------------------------------------------------
(* Claims *)

Flagged(row) == ~row.followsRules \/ row.autoClosed
Stepped(s) == jobs'[s] # jobs[s]

\* C1: a TradeRecord gets followsRules=false or autoClosed=true only in the
\* ledger update of a cycle whose closePosition call for that tradeId has
\* reported success before, the broker no longer holding the position open.
C1_FlagOnlyAfterConfirmedClose ==
    [][\A r \in 1..Len(ledger') :
          (Flagged(ledger'[r]) /\ (r > Len(ledger) \/ ~Flagged(ledger[r])))
          => \E s \in Slots :
                /\ jobs[s].pc = "m_update"
                /\ Stepped(s)
                /\ jobs[s].closed
                /\ CurItem(s).id = ledger'[r].tradeId
                /\ CurItem(s).id \notin positions[AccountOf(jobs[s].user)]]_vars

C1_Witness == \E r \in 1..Len(ledger) : Flagged(ledger[r])

\* C7: the Rule Evaluator returns exactly the sub-list of the four violation
\* names, in declaration order and without duplicates, whose conditions hold:
\* now outside [sessionStart, sessionEnd]; allowedSymbols non-empty and not
\* containing the symbol; tradeCount >= maxTradesPerDay;
\* dailyLoss <= -maxDailyLossPercent.
ViolationNames ==
    <<"Outside trading session", "Symbol not allowed", "Daily trade limit exceeded",
      "Daily loss limit exceeded">>

TimeOfDay(hms) == hms[1] * 3600 + hms[2] * 60 + hms[3]

ConditionHolds(name, in) ==
    IF name = "Outside trading session"
    THEN in.now < TimeOfDay(in.plan.session_start) \/ in.now > TimeOfDay(in.plan.session_end)
    ELSE IF name = "Symbol not allowed"
    THEN in.plan.allowed_symbols # <<>>
         /\ \A k \in DOMAIN in.plan.allowed_symbols : in.plan.allowed_symbols[k] # in.symbol
    ELSE IF name = "Daily trade limit exceeded"
    THEN in.stats.tradeCount >= in.plan.max_trades_per_day
    ELSE in.stats.dailyLoss <= 0 - in.plan.max_daily_loss_percent

InCycle(s) == jobs[s].kind = "tick" /\ jobs[s].pc \in {"m_plan", "m_check", "m_update"}

C2_OneCycleInFlight ==
    \A a \in Accounts :
        Cardinality({s \in Slots : InCycle(s) /\ AccountOf(jobs[s].user) = a}) <= 1

\* C3: after stopMonitoring has run, no new tick begins until startMonitoring
\* is called again.
StartPending == \E s \in Slots : jobs[s].pc = "st_lookup"

C3_NoTickAfterStop ==
    [][\A s \in Slots :
          (jobs[s].kind = "idle" /\ jobs'[s].kind = "tick")
          => (isMonitoring \/ StartPending)]_vars

\* C4: reconcile is idempotent on the Ledger: from every Ledger state and for
\* every broker snapshot, running sync-trades twice in sequence with the same
\* snapshot leaves the Ledger as the first run left it.
Snapshots(a) ==
    {MapItems(a, SeqOfSet(P), "pos") \o MapItems(a, SeqOfSet(D), "deal") :
        P \in SUBSET Tickets(a), D \in SUBSET Tickets(a)}

C4_ReconcileIdempotent ==
    \A u \in Users : \A sn \in Snapshots(AccountOf(u)) :
        Reconcile(Reconcile(ledger, u, sn), u, sn) = Reconcile(ledger, u, sn)

\* C5: for each broker-reported item reconcile inserts a TradeRecord with
\* followsRules=true when the user has no record with that tradeId, and
\* otherwise changes only closePrice, profit, closedAt and isOpen of the
\* existing record; every other record is left as it was.
OwnRows(u, id) == {r \in RowIdx : ledger[r].user = u /\ ledger[r].tradeId = id}

SameButFacts(old, new) ==
    [old EXCEPT !.closePrice = new.closePrice, !.profit = new.profit,
                !.closedAt = new.closedAt, !.isOpen = new.isOpen] = new

C5_InsertOrUpdateFacts ==
    [][\A s \in Slots :
          (jobs[s].pc = "s_write" /\ Stepped(s))
          => LET u == jobs[s].user
                 id == CurItem(s).id
             IN  IF OwnRows(u, id) = {}
                 THEN /\ Len(ledger') = Len(ledger) + 1
                      /\ SubSeq(ledger', 1, Len(ledger)) = ledger
                      /\ ledger'[Len(ledger')].user = u
                      /\ ledger'[Len(ledger')].tradeId = id
                      /\ ledger'[Len(ledger')].followsRules
                 ELSE /\ Len(ledger') = Len(ledger)
                      /\ \A r \in RowIdx :
                            IF r \in OwnRows(u, id)
                            THEN SameButFacts(ledger[r], ledger'[r])
                            ELSE ledger'[r] = ledger[r]]_vars

\* C6: reconcile treats positions and deals as one set deduplicated by broker
\* identifier: the count of trades it returns equals the number of distinct
\* identifiers in the snapshot it fetched.
DistinctIds(trades) == {trades[k].id : k \in 1..Len(trades)}

C6_CountsDistinctIdentifiers ==
    \A s \in Slots :
        (jobs[s].pc = "s_done" /\ jobs[s].res.success)
        => jobs[s].res.count = Cardinality(DistinctIds(jobs[s].trades))

\* C8: one Enforcement Cycle over n live positions of which k have a non-empty
\* violation set, all close calls succeeding, returns checked = n and
\* violated = k, and afterwards exactly k TradeRecords have autoClosed=true.
LivePositions(j) == {i \in 1..Len(j.trades) : j.trades[i].view = "pos"}
ViolatingPositions(j) == {k \in 1..Len(j.violated) : j.trades[j.violated[k]].view = "pos"}
AllClosesSucceeded(j) == Len(j.res.details) = Len(j.violated)
ClosedIds(j) == {j.res.details[k].tradeId : k \in 1..Len(j.res.details)}
FetchedEveryPosition(j) ==
    {j.trades[i].id : i \in LivePositions(j)} = positions[AccountOf(j.user)] \cup ClosedIds(j)
AutoClosedRows == {r \in RowIdx : ledger[r].autoClosed}

C8_CycleCounts ==
    \A s \in Slots :
        (jobs[s].pc = "m_done" /\ jobs[s].res.success /\ launched = 1
            /\ FetchedEveryPosition(jobs[s]) /\ AllClosesSucceeded(jobs[s]))
        => /\ jobs[s].res.count = Cardinality(LivePositions(jobs[s]))
           /\ jobs[s].res.violations = Cardinality(ViolatingPositions(jobs[s]))
           /\ Cardinality(AutoClosedRows) = Cardinality(ViolatingPositions(jobs[s]))

\* C9: when the user has no active TradingPlan the Enforcement Cycle aborts
\* with success=false and the error "No active trading plan found"; it issues
\* no close request and writes nothing to the Ledger.
NoPlanFailure == Failure("No active trading plan found")

C9_NoPlanAborts ==
    [][\A s \in Slots :
          (jobs[s].pc = "m_plan" /\ Stepped(s) /\ ActivePlanRows(jobs[s].user) = {})
          => /\ jobs'[s].pc = "m_done"
             /\ jobs'[s].res = NoPlanFailure
             /\ jobs'[s].violated = <<>>
             /\ ledger' = ledger
             /\ positions' = positions
             /\ deals' = deals]_vars

C9_Witness ==
    \E s \in Slots :
        /\ jobs[s].pc = "m_done"
        /\ jobs[s].res = NoPlanFailure
        /\ ActivePlanRows(jobs[s].user) = {}
        /\ positions[AccountOf(jobs[s].user)] # {}

\* C10: when closePosition fails for a violating position the Ledger is left
\* unchanged and the cycle moves on without retry state; every cycle that
\* lists the position and finds it violating asks the broker to close it,
\* whether or not an earlier request for it failed.
Requested(s) == jobs'[s].violated # jobs[s].violated
AlwaysViolating(s) ==
    \A now \in NowSet :
        Len(checkTradeViolations(CurItem(s), jobs[s].plan, jobs[s].stats, now)) > 0

C10_FailedCloseIsResubmitted ==
    [][\A s \in Slots :
          (jobs[s].pc = "m_check" /\ Stepped(s))
          => /\ (Requested(s) /\ jobs'[s].pc # "m_update")
                => /\ UNCHANGED <<ledger, plans, accounts, positions, deals, sched>>
                   /\ jobs'[s].pc = "m_done" \/ jobs'[s].i = jobs[s].i + 1
             /\ AlwaysViolating(s) => Requested(s)]_vars

C10_Witness ==
    \E s \in Slots :
        /\ isMonitoring
        /\ jobs[s].origin = "timer"
        /\ jobs[s].pc = "m_update"
        /\ CurItem(s).id \in closeFailed
        /\ \E r \in RowIdx : ledger[r].tradeId = CurItem(s).id /\ ~Flagged(ledger[r])

\* C11: a failed Ledger write is never silently dropped: the operation
\* retries it, or its outcome reports the failure; it does not return a
\* success result that counts the trade while the write was lost.
WriteLost(s) ==
    /\ Stepped(s)
    /\ ledger' = ledger
    /\ \/ /\ jobs[s].pc = "s_write"
          /\ SyncTrade(ledger, jobs[s].user, CurItem(s), jobs[s].existing) # ledger
       \/ /\ jobs[s].pc = "m_update"
          /\ MarkViolation(ledger, CurItem(s).id, jobs[s].tv) # ledger

C11_WriteFailureSurfaced ==
    [][\A s \in Slots :
          WriteLost(s)
          => \/ jobs'[s].pc = jobs[s].pc /\ jobs'[s].i = jobs[s].i
             \/ jobs'[s].pc \in {"s_done", "m_done"} => ~jobs'[s].res.success]_vars

\* C12: sync and monitor invoked for user U modify only TradeRecords owned by
\* U; the record of another user with the same tradeId is never changed.
C12_OnlyOwnRecords ==
    [][\A s \in Slots :
          Stepped(s)
          => \A r \in RowIdx : ledger[r].user # jobs[s].user => ledger'[r] = ledger[r]]_vars

\* C13: for each user the Ledger holds at most one TradeRecord per tradeId in
\* every reachable state, whatever the interleaving of reconciles.
C13_OneRecordPerTradeId ==
    \A u \in Users : \A id \in TradeIds : Cardinality(OwnRows(u, id)) <= 1

\* C14: at most one TradingPlan per user has isActive=true in every reachable
\* state, for any sequence of plan saves.
C14_OneActivePlan ==
    \A u \in Users : Cardinality(ActivePlanRows(u)) <= 1

\* C15: the monitor entry point invoked directly runs reconcile and then
\* enforce: every item it judges has a TradeRecord of the user in the Ledger.
C15_DirectMonitorReconcilesFirst ==
    \A s \in Slots :
        (jobs[s].kind = "monitor" /\ jobs[s].pc = "m_check")
        => OwnRows(jobs[s].user, CurItem(s).id) # {}

\* C16: the manual one-shot sync runs in either Scheduler state and leaves the
\* Scheduler state and timer unchanged; it only reconciles: it issues no
\* close request and changes followsRules, violations, autoClosed and
\* autoCloseReason of no TradeRecord.
SameCompliance(old, new) ==
    /\ new.followsRules = old.followsRules
    /\ new.violations = old.violations
    /\ new.autoClosed = old.autoClosed
    /\ new.autoCloseReason = old.autoCloseReason

C16_ManualSyncOnlyReconciles ==
    [][\A s \in Slots :
          (Stepped(s) /\ (jobs[s].origin = "manual" \/ jobs'[s].origin = "manual"))
          => /\ UNCHANGED <<isMonitoring, intervalId, timers, positions, deals>>
             /\ jobs'[s].pc \in {"idle", "s_fetch", "s_select", "s_write", "s_done"}
             /\ jobs'[s].violated = <<>>
             /\ \A r \in RowIdx : SameCompliance(ledger[r], ledger'[r])]_vars

C16_Witness ==
    \E s \in Slots :
        /\ isMonitoring
        /\ jobs[s].origin = "manual"
        /\ jobs[s].pc = "s_done"
        /\ jobs[s].res.success
        /\ \E r \in RowIdx :
              /\ Flagged(ledger[r])
              /\ \E k \in 1..Len(jobs[s].trades) : jobs[s].trades[k].id = ledger[r].tradeId

\* C17: stopMonitoring called while a cycle is in flight does not abort it:
\* the stop leaves the invocation and the engine as they are, and a tick in
\* flight while the Scheduler is Stopped can still take its next step, its
\* close request and its Ledger write included.
JobStep(s) ==
    \/ SyncBegin(s) \/ SyncSelect(s) \/ SyncWrite(s) \/ SyncReturn(s)
    \/ MonBegin(s) \/ MonCheck(s) \/ MonUpdate(s) \/ MonReturn(s)

CanGoOn(s) ==
    /\ ENABLED JobStep(s)
    /\ (jobs[s].pc = "m_check" /\ AlwaysViolating(s))
          => ENABLED (MonCheck(s) /\ Requested(s))
    /\ jobs[s].pc = "m_update"
          => ENABLED (MonUpdate(s)
                        /\ ledger' = MarkViolation(ledger, CurItem(s).id, jobs[s].tv))

C17_StopDoesNotAbort ==
    [][/\ (isMonitoring /\ ~isMonitoring') => UNCHANGED <<jobs, engine>>
       /\ ~isMonitoring => \A s \in Slots : jobs[s].kind = "tick" => CanGoOn(s)]_vars

C17_Witness ==
    \E s \in Slots :
        /\ ~isMonitoring
        /\ jobs[s].origin = "start"
        /\ jobs[s].kind = "tick"
        /\ jobs[s].pc = "m_update"

\* C18: no failure of a tick stops the Scheduler: whatever a step of a tick
\* returns, the Scheduler state is unchanged and an armed timer stays armed;
\* start's tick, failed or not, ends with the timer armed.
C18_FailuresKeepSchedulerRunning ==
    [][\A s \in Slots :
          (Stepped(s) /\ jobs[s].kind = "tick")
          => /\ isMonitoring' = isMonitoring
             /\ timers # {} => timers' # {}
             /\ (jobs[s].pc = "m_done" /\ jobs[s].origin = "start") => intervalId' \in timers'
             /\ (jobs[s].pc = "m_done" /\ jobs[s].origin = "timer") => UNCHANGED sched]_vars

C18_Witness ==
    \E s \in Slots :
        /\ isMonitoring
        /\ intervalId \in timers
        /\ jobs[s].origin = "timer"
        /\ jobs[s].pc = "m_check"
        /\ closeFailed # {}

\* C19: start and stop are no-ops in their target state: a startMonitoring
\* that takes effect while the Scheduler is Running begins no additional
\* cycle, and a stopMonitoring while Stopped changes neither state nor timer.
C19_StartStopIdempotent ==
    [][/\ \A s \in Slots :
             (jobs[s].kind = "start" /\ jobs'[s].kind = "tick") => ~isMonitoring
       /\ (~isMonitoring /\ ~isMonitoring' /\ jobs' = jobs) => UNCHANGED sched]_vars

\* C20: in every tick, start's immediate one included, the reconcile completes
\* before the Enforcement Cycle of that tick begins: a tick begins with its
\* sync, and its cycle begins only when the response of that sync has arrived.
CyclePcs == {"m_plan", "m_check", "m_update", "m_done"}

C20_SyncBeforeJudge ==
    [][\A s \in Slots :
          (Stepped(s) /\ jobs'[s].kind = "tick")
          => /\ jobs[s].kind # "tick" => jobs'[s].pc = "s_fetch"
             /\ (jobs'[s].pc \in CyclePcs /\ jobs[s].pc \notin CyclePcs)
                   => (jobs[s].kind = "tick" /\ jobs[s].pc = "s_done"
                          /\ jobs'[s].pc = "m_plan")]_vars

C20_Witness ==
    \E s \in Slots :
        /\ jobs[s].kind = "tick"
        /\ jobs[s].origin \in {"start", "timer"}
        /\ jobs[s].pc = "m_check"
        /\ OwnRows(jobs[s].user, CurItem(s).id) # {}

\* C21: the Enforcement Cycle issues close requests only for identifiers in
\* the broker's list of open positions, never for an item that appears only
\* among the historical deals.
OnlyAmongDeals(s) ==
    /\ CurItem(s).view = "deal"
    /\ \A k \in LivePositions(jobs[s]) : jobs[s].trades[k].id # CurItem(s).id
    /\ CurItem(s).id \notin positions[AccountOf(jobs[s].user)]

C21_OnlyLivePositionsEnforced ==
    [][\A s \in Slots :
          (jobs[s].pc = "m_check" /\ Stepped(s) /\ Requested(s)
              /\ \A o \in Slots \ {s} : Free(o))
          => ~OnlyAmongDeals(s)]_vars

\* C22: the result of a cycle counts every violating position: violated is
\* the number of evaluated positions with a non-empty violation set, and
\* details holds one record for each of them, whether its close succeeded
\* or failed.
OnlyPositionsFetched(j) == LivePositions(j) = 1..Len(j.trades)

C22_ResultCountsEveryViolation ==
    \A s \in Slots :
        (jobs[s].pc = "m_done" /\ jobs[s].res.success /\ OnlyPositionsFetched(jobs[s]))
        => /\ jobs[s].res.violations = Len(jobs[s].violated)
           /\ Len(jobs[s].res.details) = Len(jobs[s].violated)

\* C23: a closePosition call that fails or times out fails only that
\* operation: the cycle goes on to the next item it fetched, every violating
\* item still gets its own close request, and after the last item the cycle
\* returns its result.
CloseFailedNow(s) == Requested(s) /\ jobs'[s].pc # "m_update"
FailedBefore(s) == Len(jobs[s].violated) > Len(jobs[s].details)

C23_FailedCloseFailsOnlyItself ==
    [][\A s \in Slots :
          (jobs[s].pc = "m_check" /\ Stepped(s))
          => /\ (FailedBefore(s) /\ AlwaysViolating(s)) => Requested(s)
             /\ (CloseFailedNow(s) \/ (FailedBefore(s) /\ jobs'[s].pc # "m_update"))
                => /\ jobs'[s].trades = jobs[s].trades
                   /\ IF jobs[s].i < Len(jobs[s].trades)
                      THEN jobs'[s].pc = "m_check" /\ jobs'[s].i = jobs[s].i + 1
                      ELSE /\ jobs'[s].pc = "m_done"
                           /\ jobs'[s].res.success
                           /\ jobs'[s].res.count = Len(jobs[s].trades)]_vars

\* A finished cycle over two positions: the close of the first failed, the
\* second was closed on its own request and the result was returned.
C23_Witness ==
    \E s \in Slots :
        /\ jobs[s].pc = "m_done" /\ jobs[s].res.success
        /\ OnlyPositionsFetched(jobs[s])
        /\ jobs[s].violated = <<1, 2>>
        /\ Len(jobs[s].res.details) = 1
        /\ jobs[s].res.details[1].tradeId = jobs[s].trades[2].id

\* C24: when the history fetch fails (error response or thrown error) and
\* the positions fetch succeeds, the broker fetch returns exactly the open
\* positions; a failure of one of the two fetches never discards the result
\* of the other.
Failed(outcome) == outcome \in {"fail", "throw"}

C24_FetchesFailIndependently ==
    \A u \in Users : \A posRes \in FetchOutcomes, histRes \in FetchOutcomes :
        LET a == AccountOf(u)
            fetched == getAccountTrades(a, posRes, histRes)
        IN  /\ (posRes = "ok" /\ Failed(histRes))
                => fetched = MapItems(a, SeqOfSet(positions[a]), "pos")
            /\ (Failed(posRes) /\ histRes = "ok")
                => fetched = MapItems(a, SeqOfSet(deals[a]), "deal")

\* C25: a reconcile over a snapshot the Ledger already reflects issues no
\* Ledger write: an update is sent only for a record one of whose fields
\* would change.
C25_UnchangedRecordNotWritten ==
    [][\A s \in Slots :
          (jobs[s].pc = "s_write" /\ Stepped(s) /\ jobs[s].existing
              /\ \A o \in Slots \ {s} : Free(o))
          => UpdateTrade(ledger, CurItem(s)) # ledger]_vars

\* C26: a session whose end time is earlier than its start time is a window
\* of one day, not an overnight one: for such a plan the evaluator reports
\* "Outside trading session" at every evaluation time, also after the start
\* and before the end of the session.
EndsBeforeStart(plan) == TimeOfDay(plan.session_end) < TimeOfDay(plan.session_start)

C26_InvertedSessionAlwaysOutside ==
    (evalOut # Pending /\ EndsBeforeStart(evalIn.plan))
    => Includes(evalOut, "Outside trading session")

\* An evaluation at 20:00 for the session 17:00-09:00.
C26_Witness ==
    /\ evalOut # Pending
    /\ EndsBeforeStart(evalIn.plan)
    /\ evalIn.now > TimeOfDay(evalIn.plan.session_start)
    /\ Head(evalOut) = "Outside trading session"

\* C27: in every reachable state a TradeRecord with autoClosed=true has
\* isOpen=false and a closedAt value: no reconcile re-opens a record the
\* cycle has marked closed by rule.
C27_AutoClosedStaysClosed ==
    \A r \in RowIdx :
        ledger[r].autoClosed => (~ledger[r].isOpen /\ ledger[r].closedAt # Null)

\* C28: every TradeRecord has isOpen = (closedAt is absent) in every
\* reachable state: the insert and the update of reconcile and the violation
\* mark of the cycle write isOpen and closedAt together.
C28_OpenIffNoCloseTime ==
    \A r \in RowIdx : ledger[r].isOpen = (ledger[r].closedAt = Null)

\* A record the cycle has marked, next to a record reconcile left open.
C28_Witness ==
    \E r \in RowIdx, q \in RowIdx :
        /\ ledger[r].autoClosed /\ ledger[r].closedAt = EnforceTime /\ ~ledger[r].isOpen
        /\ ledger[q].isOpen /\ ledger[q].closedAt = Null

\* C29: every detail record with action 'closed' that a cycle returns
\* corresponds to a TradeRecord of that user which the cycle left with
\* autoClosed=true, followsRules=false, isOpen=false and the reported
\* violations, also after a failed reconcile or for a position the Ledger
\* did not hold yet.
MarkedAs(row, u, detail) ==
    /\ row.user = u /\ row.tradeId = detail.tradeId
    /\ row.autoClosed /\ ~row.followsRules /\ ~row.isOpen
    /\ row.violations = detail.violations

C29_ClosedDetailHasMarkedRecord ==
    \A s \in Slots :
        (jobs[s].pc = "m_done" /\ jobs[s].res.success /\ launched = 1
            /\ jobs[s].kind = "tick")
        => \A k \in 1..Len(jobs[s].res.details) :
              /\ jobs[s].res.details[k].action = "closed"
              /\ \E r \in RowIdx : MarkedAs(ledger[r], jobs[s].user, jobs[s].res.details[k])

\* C30: at most one interval timer is armed at any time, and a timer is
\* armed only while the Scheduler is Running (isMonitoring = TRUE), after any
\* sequence and interleaving of startMonitoring and stopMonitoring calls.
C30_OneTimerOnlyWhileRunning ==
    /\ Cardinality(timers) <= 1
    /\ timers # {} => isMonitoring

====
